---- MODULE Spec2Model ----
(***************************************************************************)
(* DQ-Guard: the scheduled-validation runner (backend/app/scheduler.py),   *)
(* its job registry (backend/app/db.py), the alert dispatcher and the      *)
(* rule engine / quality scorer (backend/app/validators.py).               *)
(*                                                                         *)
(* Strings the code parses (cadences, file paths) are sequences of         *)
(* one-character strings, so that startswith / split / int / endswith are  *)
(* computed as Python computes them.  Scores and thresholds are held in    *)
(* hundredths (10000 = 100.00) so that round(x, 2) is exact.               *)
(***************************************************************************)
EXTENDS Integers, Sequences, FiniteSets, TLC

(***************************************************************************)
(* Bounds of the model.                                                    *)
(***************************************************************************)
MaxJobs == 2          \* register calls that reach the store
MaxThreads == 2       \* background loop threads ever created
MaxReports == 1       \* rows of validation_results
MaxEntries == 2       \* entries of a results mapping given to the scorer
MaxCols == 2          \* column results nested in one entry
MaxRows == 2          \* rows of a dataset given to the rule engine

(***************************************************************************)
(* Character strings.                                                      *)
(***************************************************************************)
Digits == <<"0", "1", "2", "3", "4", "5", "6", "7", "8", "9">>

IsDigit(c) == \E i \in 1..Len(Digits) : Digits[i] = c

DigitValue(c) == (CHOOSE i \in 1..Len(Digits) : Digits[i] = c) - 1

\* str.startswith(prefix)
StartsWith(s, prefix) ==
    /\ Len(s) >= Len(prefix)
    /\ SubSeq(s, 1, Len(prefix)) = prefix

\* str.endswith(suffix)
EndsWith(s, suffix) ==
    /\ Len(s) >= Len(suffix)
    /\ SubSeq(s, Len(s) - Len(suffix) + 1, Len(s)) = suffix

\* str.split(sep) for a one-character separator: the fields between the
\* separators, empty fields included.
RECURSIVE SplitFrom(_, _, _, _)
SplitFrom(s, sep, i, field) ==
    IF i > Len(s) THEN <<field>>
    ELSE IF s[i] = sep THEN <<field>> \o SplitFrom(s, sep, i + 1, <<>>)
    ELSE SplitFrom(s, sep, i + 1, Append(field, s[i]))

Split(s, sep) == SplitFrom(s, sep, 1, <<>>)

\* int(text): an optional sign followed by at least one decimal digit;
\* anything else is a ValueError.
IntBody(s) == IF Len(s) > 0 /\ (s[1] = "-" \/ s[1] = "+") THEN Tail(s) ELSE s

IntParses(s) ==
    /\ Len(IntBody(s)) > 0
    /\ \A i \in 1..Len(IntBody(s)) : IsDigit(IntBody(s)[i])

RECURSIVE DigitsValue(_)
DigitsValue(s) ==
    IF Len(s) = 0 THEN 0
    ELSE 10 * DigitsValue(SubSeq(s, 1, Len(s) - 1)) + DigitValue(s[Len(s)])

IntOf(s) ==
    IF Len(s) > 0 /\ s[1] = "-" THEN 0 - DigitsValue(IntBody(s))
    ELSE DigitsValue(IntBody(s))

(***************************************************************************)
(* Datasets.  A cell is an integer, a text or null; a dataset is a list of *)
(* column names and a list of rows, as pandas builds it from a list of     *)
(* records.                                                                *)
(***************************************************************************)
IntCell(n) == [k |-> "int", n |-> n, s |-> <<>>]
StrCell(s) == [k |-> "str", n |-> 0, s |-> s]
NullCell == [k |-> "null", n |-> 0, s |-> <<>>]

Dataset(cols, rows) == [cols |-> cols, rows |-> rows]

NRows(df) == Len(df.rows)

HasColumn(df, column) == \E i \in 1..Len(df.cols) : df.cols[i] = column

ColIndex(df, column) == CHOOSE i \in 1..Len(df.cols) : df.cols[i] = column

\* df[column] as the list of its cells
Column(df, column) == [r \in 1..NRows(df) |-> df.rows[r][ColIndex(df, column)]]

NullCount_NotNull(cells) == Cardinality({i \in 1..Len(cells) : cells[i].k # "null"})

\* Series.isnull().sum()
NullCount(cells) == Cardinality({i \in 1..Len(cells) : cells[i].k = "null"})

\* Series.nunique(): distinct values, nulls dropped
NUnique(cells) == Cardinality({cells[i] : i \in {j \in 1..Len(cells) : cells[j].k # "null"}})

\* str(Series.dtype): integers give int64, integers with nulls float64,
\* anything else (texts, all nulls, no rows) object
DType(cells) ==
    IF Len(cells) = 0 THEN "object"
    ELSE IF \A i \in 1..Len(cells) : cells[i].k = "int" THEN "int64"
    ELSE IF /\ \A i \in 1..Len(cells) : cells[i].k \in {"int", "null"}
            /\ \E i \in 1..Len(cells) : cells[i].k = "int" THEN "float64"
    ELSE "object"

\* pd.api.types.is_numeric_dtype
IsNumericDType(cells) == DType(cells) \in {"int64", "float64"}

\* Series.duplicated(): a row is a duplicate when an earlier row equals it
\* (nulls equal nulls)
DuplicatedCount(items) ==
    Cardinality({i \in 1..Len(items) : \E j \in 1..(i - 1) : items[j] = items[i]})

(***************************************************************************)
(* round(100 * part / whole, 2), in hundredths.  Python rounds the decimal *)
(* value of the float half-to-even.                                        *)
(***************************************************************************)
Hundred == 10000

RoundPct(part, whole) ==
    LET n == Hundred * part
        q == n \div whole
        r == n % whole
    IN  IF 2 * r < whole THEN q
        ELSE IF 2 * r > whole THEN q + 1
        ELSE IF q % 2 = 0 THEN q ELSE q + 1

(***************************************************************************)
(* Check results.  One record shape for every result the code builds:      *)
(* has_passed / passed is the 'passed' key, error the 'error' key ("" when *)
(* the key is absent), has_columns / columns the per-column mapping, and   *)
(* raised says the check raised instead of returning.  nan says a          *)
(* percentage is NaN (numpy's 0/0), count and pct are the check's count    *)
(* and percentage metrics.                                                 *)
(***************************************************************************)
ColResult(hp, p) == [has_passed |-> hp, passed |-> p]

Result(hp, p, err, hc, cols, cnt, pct, nan) ==
    [raised |-> FALSE, exc |-> "", has_passed |-> hp, passed |-> p, error |-> err,
     has_columns |-> hc, columns |-> cols, count |-> cnt, pct |-> pct, nan |-> nan]

Raised(exc) ==
    [raised |-> TRUE, exc |-> exc, has_passed |-> FALSE, passed |-> FALSE, error |-> "",
     has_columns |-> FALSE, columns |-> <<>>, count |-> 0, pct |-> 0, nan |-> FALSE]

Passed(p, cnt, pct) == Result(TRUE, p, "", FALSE, <<>>, cnt, pct, FALSE)

\* a result that has the 'total_count' key as well
Counted(result, total_count) == result @@ [total_count |-> total_count]

ErrorResult_NoMessage(err) == Result(TRUE, FALSE, "", FALSE, <<>>, 0, 0, FALSE)

ErrorResult(err) == Result(TRUE, FALSE, err, FALSE, <<>>, 0, 0, FALSE)

(***************************************************************************)
(* Rule parameters: nonempty says the params mapping has a key at all (an  *)
(* empty mapping is falsy in Python); pattern <<>> is an absent or empty   *)
(* pattern.                                                                *)
(***************************************************************************)
Params(ne, hmin, mn, hmax, mx, pat, hexp, exp) ==
    [nonempty |-> ne, has_min |-> hmin, min |-> mn, has_max |-> hmax, max |-> mx,
     pattern |-> pat, has_expected |-> hexp, expected |-> exp]

NoParams == Params(FALSE, FALSE, 0, FALSE, 0, <<>>, FALSE, <<>>)

\* the text of a type name
TypeName(t) ==
    IF t = "int64" THEN <<"i", "n", "t", "6", "4">>
    ELSE IF t = "float64" THEN <<"f", "l", "o", "a", "t", "6", "4">>
    ELSE <<"o", "b", "j", "e", "c", "t">>

\* Python's `sub in text`
Contains(text, sub) ==
    \E i \in 1..(Len(text) + 1) :
        /\ i + Len(sub) - 1 <= Len(text)
        /\ SubSeq(text, i, i + Len(sub) - 1) = sub

\* str.lower() over the letters the model's type names use
LowerChar(c) ==
    IF c = "I" THEN "i" ELSE IF c = "N" THEN "n" ELSE IF c = "T" THEN "t"
    ELSE IF c = "O" THEN "o" ELSE IF c = "F" THEN "f" ELSE c

Lower(text) == [i \in 1..Len(text) |-> LowerChar(text[i])]

\* str(n) for a non-negative integer
RECURSIVE DecimalText(_)
DecimalText(n) ==
    IF n < 10 THEN <<Digits[n + 1]>>
    ELSE DecimalText(n \div 10) \o <<Digits[(n % 10) + 1]>>

\* Series.astype(str), cell by cell: a float64 column prints its integers
\* with ".0" and its nulls as "nan"; an object column prints None as "None"
\* (pandas before 3.0, whose astype(str) converts the missing values too)
CellText(cell, dtype) ==
    IF cell.k = "str" THEN cell.s
    ELSE IF cell.k = "int"
         THEN IF dtype = "float64" THEN DecimalText(cell.n) \o <<".", "0">>
              ELSE DecimalText(cell.n)
    ELSE IF dtype = "float64" THEN <<"n", "a", "n">>
    ELSE <<"N", "o", "n", "e">>

(***************************************************************************)
(* Regular expressions: literal characters, "." for any character, an      *)
(* optional leading "^" and an optional trailing "$"; a pattern holding    *)
(* "[" has an unterminated character set and does not compile.             *)
(***************************************************************************)
PatternCompiles(pattern) == \A i \in 1..Len(pattern) : pattern[i] # "["

PatternBody(pattern) ==
    LET a == IF Len(pattern) > 0 /\ pattern[1] = "^" THEN Tail(pattern) ELSE pattern
    IN  IF Len(a) > 0 /\ a[Len(a)] = "$" THEN SubSeq(a, 1, Len(a) - 1) ELSE a

PatternEndAnchored(pattern) == Len(pattern) > 0 /\ pattern[Len(pattern)] = "$"

\* re.match(pattern, text): the pattern matches at the start of the text
ReMatch(pattern, text) ==
    LET b == PatternBody(pattern)
    IN  /\ Len(text) >= Len(b)
        /\ \A i \in 1..Len(b) : b[i] = "." \/ b[i] = text[i]
        /\ PatternEndAnchored(pattern) => Len(text) = Len(b)

(***************************************************************************)
(* The six checks.  column "" stands for None.                             *)
(***************************************************************************)
\* the per-column summaries of the whole-dataset null and type checks carry
\* no 'passed' key
ColumnSummaries(df) == [i \in 1..Len(df.cols) |-> ColResult(FALSE, FALSE)]

TotalNulls(df) ==
    Cardinality({rc \in (1..NRows(df)) \X (1..Len(df.cols)) : df.rows[rc[1]][rc[2]].k = "null"})

check_nulls(df, column, params) ==
    IF column # ""
    THEN IF ~HasColumn(df, column) THEN Raised("KeyError")
         ELSE LET cells == Column(df, column)
                  null_count == NullCount(cells)
                  total_count == Len(cells)
              IN  IF total_count = 0
                  THEN Counted(Result(TRUE, null_count = 0, "", FALSE, <<>>, null_count, 0, TRUE),
                               total_count)
                  ELSE Counted(Passed(null_count = 0, null_count,
                                      RoundPct(null_count, total_count)), total_count)
    ELSE Result(FALSE, FALSE, "", TRUE, ColumnSummaries(df), TotalNulls(df), 0, FALSE)

check_types(df, column, params) ==
    IF column # "" /\ params.nonempty
    THEN IF ~HasColumn(df, column) THEN Raised("KeyError")
         ELSE IF ~params.has_expected THEN Raised("AttributeError")
         ELSE Passed(Contains(Lower(TypeName(DType(Column(df, column)))),
                              Lower(params.expected)), 0, 0)
    ELSE Result(FALSE, FALSE, "", TRUE, ColumnSummaries(df), 0, 0, FALSE)

check_uniqueness(df, column, params) ==
    IF ~HasColumn(df, column) THEN Raised("KeyError")
    ELSE LET cells == Column(df, column)
             total_count == Len(cells)
             unique_count == NUnique(cells)
             duplicate_count == total_count - unique_count
         IN  IF total_count = 0 THEN Raised("ZeroDivisionError")
             ELSE Passed(duplicate_count = 0, duplicate_count,
                         RoundPct(unique_count, total_count))

OutOfRange_Exclusive(value, min_val, max_val) == value <= min_val \/ value >= max_val

\* (df[column] < min_val) | (df[column] > max_val), for one value
OutOfRange(value, min_val, max_val) == value < min_val \/ value > max_val

check_range(df, column, params) ==
    IF ~HasColumn(df, column) THEN Raised("KeyError")
    ELSE LET cells == Column(df, column)
             out_of_range == {i \in 1..Len(cells) :
                                 /\ cells[i].k = "int"
                                 /\ OutOfRange(cells[i].n, params.min, params.max)}
         IN  IF IsNumericDType(cells)
             THEN IF ~params.has_min \/ ~params.has_max THEN Raised("TypeError")
                  ELSE Passed(Cardinality(out_of_range) = 0, Cardinality(out_of_range),
                              RoundPct(Cardinality(out_of_range), NRows(df)))
             ELSE ErrorResult("Column is not numeric")

check_regex(df, column, params) ==
    IF params.pattern = <<>> THEN ErrorResult("No regex pattern provided")
    ELSE IF ~HasColumn(df, column) THEN ErrorResult("Regex error: KeyError")
    ELSE IF ~PatternCompiles(params.pattern) THEN ErrorResult("Regex error: re.error")
    ELSE LET cells == Column(df, column)
             dtype == DType(cells)
             matches == {i \in 1..Len(cells) :
                            ReMatch(params.pattern, CellText(cells[i], dtype))}
             non_matches == Len(cells) - Cardinality(matches)
         IN  IF Len(cells) = 0
             THEN Result(TRUE, TRUE, "", FALSE, <<>>, 0, 0, TRUE)
             ELSE Passed(non_matches = 0, non_matches,
                         RoundPct(Cardinality(matches), Len(cells)))

check_duplicates(df, column, params) ==
    IF column # "" /\ ~HasColumn(df, column) THEN Raised("KeyError")
    ELSE LET duplicates == IF column # "" THEN DuplicatedCount(Column(df, column))
                           ELSE DuplicatedCount(df.rows)
         IN  IF NRows(df) = 0 THEN Raised("ZeroDivisionError")
             ELSE Passed(duplicates = 0, duplicates, RoundPct(duplicates, NRows(df)))

(***************************************************************************)
(* The quality scorer.  A results mapping is the list of its values in     *)
(* insertion order.                                                        *)
(***************************************************************************)
RECURSIVE SumSeq(_)
SumSeq(ns) == IF Len(ns) = 0 THEN 0 ELSE Head(ns) + SumSeq(Tail(ns))

EntryTotal_TopLevelOnly(result) == IF result.has_passed THEN 1 ELSE 0

\* the checks one entry contributes: itself when it has a 'passed' key,
\* otherwise the column results of its 'columns' mapping that have one
EntryTotal(result) ==
    IF result.has_passed THEN 1
    ELSE IF result.has_columns
         THEN Cardinality({i \in 1..Len(result.columns) : result.columns[i].has_passed})
    ELSE 0

EntryPassed(result) ==
    IF result.has_passed THEN (IF result.passed THEN 1 ELSE 0)
    ELSE IF result.has_columns
         THEN Cardinality({i \in 1..Len(result.columns) :
                              result.columns[i].has_passed /\ result.columns[i].passed})
    ELSE 0

calculate_quality_score_NoChecksZero(validation_results) ==
    LET total_checks == SumSeq([i \in 1..Len(validation_results) |->
                                   EntryTotal(validation_results[i])])
        passed_checks == SumSeq([i \in 1..Len(validation_results) |->
                                    EntryPassed(validation_results[i])])
    IN  IF total_checks = 0 THEN 0
        ELSE RoundPct(passed_checks, total_checks)

calculate_quality_score(validation_results) ==
    LET total_checks == SumSeq([i \in 1..Len(validation_results) |->
                                   EntryTotal(validation_results[i])])
        passed_checks == SumSeq([i \in 1..Len(validation_results) |->
                                    EntryPassed(validation_results[i])])
    IN  IF total_checks = 0 THEN Hundred
        ELSE RoundPct(passed_checks, total_checks)

(***************************************************************************)
(* Profile mode and custom-rule mode.                                      *)
(***************************************************************************)
Report(raised, names, results, score) ==
    [raised |-> raised, names |-> names, results |-> results, quality_score |-> score]

validate_dataframe(df) ==
    LET null_results == check_nulls(df, "", NoParams)
        type_results == check_types(df, "", NoParams)
        duplicate_results == check_duplicates(df, "", NoParams)
        results == <<null_results, type_results, duplicate_results>>
    IN  IF duplicate_results.raised
        THEN Report(TRUE, <<>>, <<>>, 0)
        ELSE Report(FALSE, <<"null_check", "type_check", "duplicate_check">>, results,
                    calculate_quality_score(results))

RuleKinds ==
    {"null_check", "type_check", "unique_check", "range_check", "regex_check",
     "duplicate_check"}

\* self.validation_rules[rule_type](df, column, params)
ApplyRule(df, rule) ==
    IF rule.type = "null_check" THEN check_nulls(df, rule.column, rule.params)
    ELSE IF rule.type = "type_check" THEN check_types(df, rule.column, rule.params)
    ELSE IF rule.type = "unique_check" THEN check_uniqueness(df, rule.column, rule.params)
    ELSE IF rule.type = "range_check" THEN check_range(df, rule.column, rule.params)
    ELSE IF rule.type = "regex_check" THEN check_regex(df, rule.column, rule.params)
    ELSE check_duplicates(df, rule.column, rule.params)

\* results[rule_name] = rule_result: a later rule of the same name replaces
\* the value and keeps the key's place
PutResult(report, name, result) ==
    IF \E i \in 1..Len(report.names) : report.names[i] = name
    THEN LET i == CHOOSE j \in 1..Len(report.names) : report.names[j] = name
         IN  [report EXCEPT !.results[i] = result]
    ELSE [report EXCEPT !.names = Append(@, name), !.results = Append(@, result)]

\* the loop over the rules; an exception of one rule ends the call
RECURSIVE RunRules(_, _, _)
RunRules(df, rules, report) ==
    IF report.raised \/ Len(rules) = 0 THEN report
    ELSE LET rule == Head(rules)
         IN  IF rule.type \in RuleKinds
             THEN LET rule_result == ApplyRule(df, rule)
                  IN  IF rule_result.raised
                      THEN [report EXCEPT !.raised = TRUE]
                      ELSE RunRules(df, Tail(rules), PutResult(report, rule.name, rule_result))
             ELSE RunRules(df, Tail(rules), report)

validate_with_rules(df, rules) ==
    LET report == RunRules(df, rules, Report(FALSE, <<>>, <<>>, 0))
    IN  IF report.raised THEN report
        ELSE [report EXCEPT !.quality_score = calculate_quality_score(report.results)]

(***************************************************************************)
(* The alert dispatcher.  An alert configuration is the 'alerts' mapping   *)
(* of a job: enabled is "absent", "true" or "false"; the threshold is      *)
(* absent, a number (in hundredths) or a value that is no number; type is  *)
(* "absent" or the channel's name; settings says the channel's settings    *)
(* (credentials and recipient, or the webhook URL) are all present.        *)
(* channel is what the channel does when it is used: "200", "204", "500"   *)
(* the status of the response, "raise" a network or authentication error.  *)
(***************************************************************************)
DefaultThreshold == 8000

Threshold(kind, v) == [kind |-> kind, v |-> v]

AlertConfig(enabled, threshold, type, settings) ==
    [enabled |-> enabled, threshold |-> threshold, type |-> type, settings |-> settings]

NoAlerts == AlertConfig("absent", Threshold("absent", 0), "absent", FALSE)

Dispatch(raised, attempts, sends, reported) ==
    [raised |-> raised, attempts |-> attempts, sends |-> sends, reported |-> reported]

\* _send_email_alert / _send_slack_alert / _send_webhook_alert, inside the
\* try of _send_alert: what was sent and what was reported
send_alert(alert_config, channel) ==
    LET alert_type == IF alert_config.type = "absent" THEN "email" ELSE alert_config.type
    IN  IF alert_type = "email"
        THEN IF ~alert_config.settings THEN Dispatch(FALSE, 1, 0, "incomplete")
             ELSE IF channel = "raise" THEN Dispatch(FALSE, 1, 1, "error")
             ELSE Dispatch(FALSE, 1, 1, "sent")
        ELSE IF alert_type \in {"slack", "webhook"}
        THEN IF ~alert_config.settings THEN Dispatch(FALSE, 1, 0, "incomplete")
             ELSE IF channel = "raise" THEN Dispatch(FALSE, 1, 1, "error")
             ELSE IF channel = "200" THEN Dispatch(FALSE, 1, 1, "sent")
             ELSE Dispatch(FALSE, 1, 1, "failed")
        ELSE Dispatch(FALSE, 1, 0, "none")

ScoreBelow_OrEqual(quality_score, threshold) == quality_score <= threshold

\* quality_score < threshold
ScoreBelow(quality_score, threshold) == quality_score < threshold

check_and_send_alerts(quality_score, alert_config, channel) ==
    IF alert_config.enabled # "true" THEN Dispatch(FALSE, 0, 0, "none")
    ELSE IF alert_config.threshold.kind = "bad" THEN Dispatch(TRUE, 0, 0, "none")
    ELSE LET threshold == IF alert_config.threshold.kind = "absent" THEN DefaultThreshold
                          ELSE alert_config.threshold.v
         IN  IF ScoreBelow(quality_score, threshold) THEN send_alert(alert_config, channel)
             ELSE Dispatch(FALSE, 0, 0, "none")

(***************************************************************************)
(* The alert message.  A message is what it tells of the report:           *)
(* has_source, has_score and has_timestamp say the report's source, score  *)
(* and timestamp are in it, band is the qualitative band it names          *)
(* ("absent" for none).                                                    *)
(***************************************************************************)
Message(has_source, has_score, has_timestamp, band) ==
    [has_source |-> has_source, has_score |-> has_score, has_timestamp |-> has_timestamp,
     band |-> band]

\* ValidationScheduler._create_alert_message: source, score and timestamp
create_alert_message(quality_score) == Message(TRUE, TRUE, TRUE, "absent")

\* NotificationUtils.format_validation_alert, which nothing in the
\* repository calls: the same three and the Quality Assessment line
format_validation_alert(quality_score) ==
    Message(TRUE, TRUE, TRUE,
            IF quality_score >= 90 * 100 THEN "Excellent"
            ELSE IF quality_score >= 70 * 100 THEN "Good"
            ELSE IF quality_score >= 50 * 100 THEN "Fair"
            ELSE "Poor")

\* what _send_alert hands to the channel: the message for email and Slack,
\* the report itself (source, score and timestamp among its keys) for a
\* webhook
alert_content(quality_score, alert_config) ==
    IF alert_config.type = "webhook" THEN Message(TRUE, TRUE, TRUE, "absent")
    ELSE create_alert_message(quality_score)

\* the contents the dispatcher has sent in one call
sent_alerts(quality_score, alert_config, channel) ==
    IF check_and_send_alerts(quality_score, alert_config, channel).sends = 1
    THEN <<alert_content(quality_score, alert_config)>>
    ELSE <<>>

(***************************************************************************)
(* Job definitions (the schedule_data mapping of a register call).         *)
(* schedule: has says the 'schedule' key is present, s is its text.        *)
(* data_source: type is "absent" (no 'data_source' key), "empty" (a        *)
(* mapping without 'type') or the kind's name; path is the file's path,    *)
(* <<>> when there is none.                                                *)
(***************************************************************************)
S_daily == <<"d", "a", "i", "l", "y">>
S_hourly == <<"h", "o", "u", "r", "l", "y">>
S_weekly == <<"w", "e", "e", "k", "l", "y">>
S_every_ == <<"e", "v", "e", "r", "y", "_">>
S_minutes == <<"m", "i", "n", "u", "t", "e", "s">>
S_hours == <<"h", "o", "u", "r", "s">>
S_csv == <<".", "c", "s", "v">>

Schedule(has, text) == [has |-> has, s |-> text]

DataSource(type, path) == [type |-> type, path |-> path]

JobDef(schedule, data_source, alerts) ==
    [schedule |-> schedule, data_source |-> data_source, alerts |-> alerts]

\* schedule_data.get('schedule', 'daily')
schedule_expression_of(schedule_data) ==
    IF schedule_data.schedule.has THEN schedule_data.schedule.s ELSE S_daily

Trigger(kind, unit, interval) == [kind |-> kind, unit |-> unit, interval |-> interval]

\* the if / elif chain that installs the trigger: kind "job" is a trigger of
\* the schedule library, "none" no trigger, "raise" the ValueError of int()
trigger_for(schedule_expression) ==
    IF schedule_expression = S_daily THEN Trigger("job", "day", 1)
    ELSE IF schedule_expression = S_hourly THEN Trigger("job", "hour", 1)
    ELSE IF schedule_expression = S_weekly THEN Trigger("job", "week", 1)
    ELSE IF StartsWith(schedule_expression, S_every_)
    THEN LET parts == Split(schedule_expression, "_")
         IN  IF Len(parts) = 3
             THEN IF ~IntParses(parts[2]) THEN Trigger("raise", "", 0)
                  ELSE IF parts[3] = S_minutes THEN Trigger("job", "minutes", IntOf(parts[2]))
                  ELSE IF parts[3] = S_hours THEN Trigger("job", "hours", IntOf(parts[2]))
                  ELSE Trigger("none", "", 0)
             ELSE Trigger("none", "", 0)
    ELSE Trigger("none", "", 0)

(***************************************************************************)
(* One execution of a scheduled job.  env is what the outside world does   *)
(* during it: load is "ok", "raise" (the file cannot be read, the request  *)
(* fails) or "http_error" (a response whose status is not 200); df is the  *)
(* dataset loaded; store is "ok" or "raise"; channel as for the            *)
(* dispatcher.  fault names the step that raised, escaped says the         *)
(* exception left _execute_scheduled_validation.                           *)
(***************************************************************************)
Env(load, df, store, channel) == [load |-> load, df |-> df, store |-> store, channel |-> channel]

Exec(fault, loaded, persisted, score, dispatch) ==
    [fault |-> fault, escaped |-> fault # "none", loaded |-> loaded, persisted |-> persisted,
     score |-> score, dispatch |-> dispatch]

NoDispatch == Dispatch(FALSE, 0, 0, "none")

validate_store_alert_AlertFirst(job_config, env) ==
    LET results == validate_dataframe(env.df)
        dispatch == check_and_send_alerts(results.quality_score, job_config.alerts, env.channel)
    IN  IF results.raised THEN Exec("evaluate", TRUE, FALSE, 0, NoDispatch)
        ELSE IF dispatch.raised THEN Exec("alert", TRUE, FALSE, results.quality_score, dispatch)
        ELSE IF env.store = "raise" THEN Exec("persist", TRUE, FALSE, results.quality_score, dispatch)
        ELSE Exec("none", TRUE, TRUE, results.quality_score, dispatch)

\* validate_dataframe, store_validation_result, _check_and_send_alerts
validate_store_alert(job_config, env) ==
    LET results == validate_dataframe(env.df)
        dispatch == check_and_send_alerts(results.quality_score, job_config.alerts, env.channel)
    IN  IF results.raised THEN Exec("evaluate", TRUE, FALSE, 0, NoDispatch)
        ELSE IF env.store = "raise" THEN Exec("persist", TRUE, FALSE, results.quality_score, NoDispatch)
        ELSE IF dispatch.raised THEN Exec("alert", TRUE, TRUE, results.quality_score, dispatch)
        ELSE Exec("none", TRUE, TRUE, results.quality_score, dispatch)

\* the body of the try
execute_body(job_config, env) ==
    LET data_source == job_config.data_source
    IN  IF data_source.type = "file"
        THEN IF data_source.path # <<>> /\ EndsWith(data_source.path, S_csv)
             THEN IF env.load = "raise" THEN Exec("load", FALSE, FALSE, 0, NoDispatch)
                  ELSE validate_store_alert(job_config, env)
             ELSE Exec("none", FALSE, FALSE, 0, NoDispatch)
        ELSE IF data_source.type = "api"
        THEN IF env.load = "raise" THEN Exec("load", FALSE, FALSE, 0, NoDispatch)
             ELSE IF env.load = "http_error" THEN Exec("none", FALSE, FALSE, 0, NoDispatch)
             ELSE validate_store_alert(job_config, env)
        ELSE Exec("none", FALSE, FALSE, 0, NoDispatch)

job_boundary_NoCatch(outcome) == outcome

\* except Exception: the exception is printed and goes no further
job_boundary(outcome) == [outcome EXCEPT !.escaped = FALSE]

execute_scheduled_validation(job_config, env) == job_boundary(execute_body(job_config, env))

(***************************************************************************)
(* The on-demand upload, POST /validate/upload.  A response is its status  *)
(* and whether its detail holds "Unsupported file format"; evaluated and   *)
(* stored say validate_dataframe ran and a validation result was stored.   *)
(* raised says the outcome is an exception on its way out of the try.      *)
(***************************************************************************)
S_json == <<".", "j", "s", "o", "n">>

UploadOutcome(raised, status, unsupported, evaluated, stored) ==
    [raised |-> raised, status |-> status, unsupported |-> unsupported,
     evaluated |-> evaluated, stored |-> stored]

\* the body of the try: an exception that is no HTTPException has status 0
upload_body(filename, env) ==
    IF EndsWith(filename, S_csv) \/ EndsWith(filename, S_json)
    THEN IF env.load = "raise" THEN UploadOutcome(TRUE, 0, FALSE, FALSE, FALSE)
         ELSE IF validate_dataframe(env.df).raised
         THEN UploadOutcome(TRUE, 0, FALSE, TRUE, FALSE)
         ELSE IF env.store = "raise" THEN UploadOutcome(TRUE, 0, FALSE, TRUE, FALSE)
         ELSE UploadOutcome(FALSE, 200, FALSE, TRUE, TRUE)
    ELSE UploadOutcome(TRUE, 400, TRUE, FALSE, FALSE)

\* except Exception as e: raise HTTPException(status_code=500,
\* detail=str(e)); HTTPException is an Exception too, and str(e) of one
\* holds its detail
upload_boundary(outcome) ==
    IF outcome.raised THEN [outcome EXCEPT !.raised = FALSE, !.status = 500]
    ELSE outcome

validate_uploaded_file(filename, env) == upload_boundary(upload_body(filename, env))

(***************************************************************************)
(* State.                                                                  *)
(***************************************************************************)
VARIABLES
    scheduled_jobs,      \* the scheduled_jobs table: the rows in insertion order
    uuid_count,          \* identifiers uuid4 has generated
    jobs,                \* schedule.jobs: the triggers of the schedule library
    running,             \* ValidationScheduler.running
    scheduler_thread,    \* ValidationScheduler.scheduler_thread: 0 is None
    threads,             \* the loop threads created, by thread number
    validation_results,  \* rows of the validation_results table
    call,                \* per caller: the start() / stop() call it is in
    raised_ids,          \* identifiers whose register call raised
    last_list,           \* what the latest get_scheduled_jobs() returned
    registered,          \* identifiers register calls have returned
    cancelled,           \* identifiers cancel calls have returned for
    registering,         \* register calls between storing the row and the trigger
    fn_in,               \* the input of a function applied on its own
    fn_out,              \* its result
    fn_pc                \* "in" before the function is applied, "out" after

vars ==
    <<scheduled_jobs, uuid_count, jobs, running, scheduler_thread, threads,
      validation_results, call, raised_ids, last_list, registered, cancelled,
      registering, fn_in, fn_out, fn_pc>>

scheduler_vars ==
    <<scheduled_jobs, uuid_count, jobs, running, scheduler_thread, threads,
      validation_results, call, raised_ids, last_list, registered, cancelled,
      registering>>

fn_vars == <<fn_in, fn_out, fn_pc>>

Callers == {"lifespan", "client"}

Row(job_id, schedule_expression, job_config, is_active) ==
    [job_id |-> job_id, schedule_expression |-> schedule_expression,
     job_config |-> job_config, is_active |-> is_active]

Job(tag, unit, interval, job_config) ==
    [tag |-> tag, unit |-> unit, interval |-> interval, job_config |-> job_config]

NoExec == Exec("none", FALSE, FALSE, 0, NoDispatch)

\* a loop thread: pc is where it is in _run_scheduler ("check" at `while
\* self.running`, "jobs" inside run_pending() between two jobs, "executing"
\* inside a job_func, "sleep" in time.sleep(60), "exited" after the loop,
\* "crashed" ended by an exception); pending the tags of the jobs
\* run_pending() found due and has not run yet, cur the tag of the job being
\* run (0 for none); due, ran and faults are the tags this tick found due,
\* has run, and saw raise; last is the outcome of the execution that just
\* ended
Thread(pc, pending, cur, due, ran, faults, last) ==
    [pc |-> pc, pending |-> pending, cur |-> cur, due |-> due, ran |-> ran,
     faults |-> faults, last |-> last]

NewThread == Thread("check", {}, 0, {}, {}, {}, NoExec)

\* a caller of start() / stop(): op the call, pc where it is in it,
\* saw_running what `if not self.running` read, spawned the thread the call
\* created, joining the thread stop() joins, waited_sleep whether the join
\* lasted until a time.sleep(60) of that thread ran out
Call(op, pc, saw_running, spawned, joining, waited_sleep) ==
    [op |-> op, pc |-> pc, saw_running |-> saw_running, spawned |-> spawned,
     joining |-> joining, waited_sleep |-> waited_sleep]

NoCall == Call("none", "idle", FALSE, 0, 0, FALSE)

InitScheduler ==
    /\ scheduled_jobs = <<>>
    /\ uuid_count = 0
    /\ jobs = <<>>
    /\ running = FALSE
    /\ scheduler_thread = 0
    /\ threads = <<>>
    /\ validation_results = 0
    /\ call = [c \in Callers |-> NoCall]
    /\ raised_ids = {}
    /\ last_list = <<>>
    /\ registered = {}
    /\ cancelled = {}
    /\ registering = {}

InitFn ==
    /\ fn_in = <<>>
    /\ fn_out = <<>>
    /\ fn_pc = "idle"

Init == InitScheduler /\ InitFn

(***************************************************************************)
(* start() and stop().                                                     *)
(***************************************************************************)
StartCheck_NoGuard(c) ==
    /\ call[c].pc = "idle"
    /\ call' = [call EXCEPT ![c] = Call("start", "start_set", running, 0, 0, FALSE)]
    /\ UNCHANGED <<scheduled_jobs, uuid_count, jobs, running, scheduler_thread, threads,
                   validation_results, raised_ids, last_list, registered, cancelled>>
    /\ UNCHANGED registering
    /\ UNCHANGED fn_vars

\* `if not self.running`
StartCheck(c) ==
    /\ call[c].pc = "idle"
    /\ call' = [call EXCEPT ![c] =
                   Call("start", IF running THEN "idle" ELSE "start_set", running, 0, 0, FALSE)]
    /\ UNCHANGED <<scheduled_jobs, uuid_count, jobs, running, scheduler_thread, threads,
                   validation_results, raised_ids, last_list, registered, cancelled>>
    /\ UNCHANGED registering
    /\ UNCHANGED fn_vars

\* self.running = True; the thread is created and started
StartSpawn(c) ==
    /\ call[c].pc = "start_set"
    /\ Len(threads) < MaxThreads
    /\ running' = TRUE
    /\ threads' = Append(threads, NewThread)
    /\ scheduler_thread' = Len(threads) + 1
    /\ call' = [call EXCEPT ![c].pc = "idle", ![c].spawned = Len(threads) + 1]
    /\ UNCHANGED <<scheduled_jobs, uuid_count, jobs, validation_results, raised_ids,
                   last_list, registered, cancelled>>
    /\ UNCHANGED registering
    /\ UNCHANGED fn_vars

\* self.running = False; `if self.scheduler_thread` decides whether to join
StopSignal(c) ==
    /\ call[c].pc = "idle"
    /\ running' = FALSE
    /\ call' = [call EXCEPT ![c] =
                   Call("stop", IF scheduler_thread = 0 THEN "idle" ELSE "stop_join",
                        FALSE, 0, scheduler_thread, FALSE)]
    /\ UNCHANGED <<scheduled_jobs, uuid_count, jobs, scheduler_thread, threads,
                   validation_results, raised_ids, last_list, registered, cancelled>>
    /\ UNCHANGED registering
    /\ UNCHANGED fn_vars

\* self.scheduler_thread.join() returns once the thread has exited
StopJoin(c) ==
    /\ call[c].pc = "stop_join"
    /\ threads[call[c].joining].pc = "exited"
    /\ call' = [call EXCEPT ![c].pc = "idle"]
    /\ UNCHANGED <<scheduled_jobs, uuid_count, jobs, running, scheduler_thread, threads,
                   validation_results, raised_ids, last_list, registered, cancelled>>
    /\ UNCHANGED registering
    /\ UNCHANGED fn_vars

(***************************************************************************)
(* The loop thread: while self.running: run_pending(); time.sleep(60).     *)
(***************************************************************************)
JobTags == {jobs[i].tag : i \in 1..Len(jobs)}

\* job_func closes over the schedule_data of its register call, which is
\* the job_config of the row stored under the same identifier
ConfigOf(tag) ==
    (CHOOSE row \in {scheduled_jobs[i] : i \in 1..Len(scheduled_jobs)} : row.job_id = tag).job_config

\* `while self.running`, and when it holds run_pending() lists the jobs that
\* are due; which ones are is up to the clock.  With none due run_pending()
\* returns and the sleep begins.
LoopIterate(t, due) ==
    /\ threads[t].pc = "check"
    /\ due \subseteq JobTags
    /\ threads' = [threads EXCEPT ![t] =
                      IF ~running THEN Thread("exited", {}, 0, {}, {}, {}, NoExec)
                      ELSE Thread(IF due = {} THEN "sleep" ELSE "jobs", due, 0, due, {}, {},
                                  NoExec)]
    /\ UNCHANGED <<scheduled_jobs, uuid_count, jobs, running, scheduler_thread,
                   validation_results, call, raised_ids, last_list, registered, cancelled>>
    /\ UNCHANGED registering
    /\ UNCHANGED fn_vars

\* run_pending() takes the next due job and calls its job_func
JobStart(t, tag) ==
    /\ threads[t].pc = "jobs"
    /\ tag \in threads[t].pending
    /\ validation_results < MaxReports
    /\ threads' = [threads EXCEPT ![t].pc = "executing",
                                  ![t].pending = @ \ {tag},
                                  ![t].cur = tag,
                                  ![t].last = NoExec]
    /\ UNCHANGED <<scheduled_jobs, uuid_count, jobs, running, scheduler_thread,
                   validation_results, call, raised_ids, last_list, registered, cancelled>>
    /\ UNCHANGED registering
    /\ UNCHANGED fn_vars

\* where the thread goes when job_func ends: an exception that escaped it
\* ends the thread; otherwise the next due job, or the sleep after the last
AfterJob(outcome, pending) ==
    IF outcome.escaped THEN "crashed"
    ELSE IF pending = {} THEN "sleep"
    ELSE "jobs"

\* _execute_scheduled_validation(job_config) runs to its end
JobFinish(t, env) ==
    /\ threads[t].pc = "executing"
    /\ LET outcome == execute_scheduled_validation(ConfigOf(threads[t].cur), env)
       IN  /\ threads' = [threads EXCEPT
                             ![t].pc = AfterJob(outcome, threads[t].pending),
                             ![t].cur = 0,
                             ![t].ran = @ \cup {threads[t].cur},
                             ![t].faults = IF outcome.fault # "none"
                                           THEN @ \cup {threads[t].cur} ELSE @,
                             ![t].last = outcome]
           /\ validation_results' = IF outcome.persisted THEN validation_results + 1
                                    ELSE validation_results
    /\ UNCHANGED <<scheduled_jobs, uuid_count, jobs, running, scheduler_thread,
                   call, raised_ids, last_list, registered, cancelled>>
    /\ UNCHANGED registering
    /\ UNCHANGED fn_vars

\* time.sleep(60) runs out; a stop() that is joining this thread has been
\* waiting for it
SleepElapse(t) ==
    /\ threads[t].pc = "sleep"
    /\ threads' = [threads EXCEPT ![t] = NewThread]
    /\ call' = [c \in Callers |->
                   IF call[c].pc = "stop_join" /\ call[c].joining = t
                   THEN [call[c] EXCEPT !.waited_sleep = TRUE]
                   ELSE call[c]]
    /\ UNCHANGED <<scheduled_jobs, uuid_count, jobs, running, scheduler_thread,
                   validation_results, raised_ids, last_list, registered, cancelled>>
    /\ UNCHANGED registering
    /\ UNCHANGED fn_vars

(***************************************************************************)
(* The registry: schedule_validation, cancel_job, get_scheduled_jobs.      *)
(***************************************************************************)
store_scheduled_job_Inactive(rows, job_id, schedule_expression, job_config) ==
    Append(rows, Row(job_id, schedule_expression, job_config, FALSE))

\* store_scheduled_job: INSERT OR REPLACE of the row, is_active by default 1
store_scheduled_job(rows, job_id, schedule_expression, job_config) ==
    IF \E i \in 1..Len(rows) : rows[i].job_id = job_id
    THEN [i \in 1..Len(rows) |->
             IF rows[i].job_id = job_id
             THEN Row(job_id, schedule_expression, job_config, TRUE)
             ELSE rows[i]]
    ELSE Append(rows, Row(job_id, schedule_expression, job_config, TRUE))

\* SELECT ... WHERE is_active = 1
get_scheduled_jobs(rows) == SelectSeq(rows, LAMBDA row : row.is_active)

clear_tag_All(job_list, tag) == <<>>

\* schedule.clear(tag): the jobs that do not carry the tag stay
clear_tag(job_list, tag) == SelectSeq(job_list, LAMBDA job : job.tag # tag)

\* what cancel_job does to the scheduled_jobs table
cancel_rows(rows, job_id) == rows

\* schedule_validation(schedule_data): the row is stored, then the trigger
\* is installed; int() may raise in between
Register(schedule_data) ==
    /\ uuid_count < MaxJobs
    /\ LET job_id == uuid_count + 1
           schedule_expression == schedule_expression_of(schedule_data)
           trigger == trigger_for(schedule_expression)
       IN  /\ uuid_count' = job_id
           /\ scheduled_jobs' =
                  store_scheduled_job(scheduled_jobs, job_id, schedule_expression, schedule_data)
           /\ jobs' = IF trigger.kind = "job"
                      THEN Append(jobs, Job(job_id, trigger.unit, trigger.interval, schedule_data))
                      ELSE jobs
           /\ raised_ids' = IF trigger.kind = "raise" THEN raised_ids \cup {job_id} ELSE raised_ids
           /\ registered' = IF trigger.kind = "raise" THEN registered
                            ELSE registered \cup {job_id}
    /\ UNCHANGED <<running, scheduler_thread, threads, validation_results, call, last_list,
                   cancelled>>
    /\ UNCHANGED registering
    /\ UNCHANGED fn_vars

\* schedule_validation as another thread sees it, in two steps.  First the
\* identifier is generated and the row is stored and committed.
RegisterStore(schedule_data) ==
    /\ uuid_count < MaxJobs
    /\ uuid_count' = uuid_count + 1
    /\ scheduled_jobs' =
           store_scheduled_job(scheduled_jobs, uuid_count + 1,
                               schedule_expression_of(schedule_data), schedule_data)
    /\ registering' = registering \cup {[job_id |-> uuid_count + 1, schedule_data |-> schedule_data]}
    /\ UNCHANGED <<jobs, running, scheduler_thread, threads, validation_results, call,
                   raised_ids, last_list, registered, cancelled>>
    /\ UNCHANGED fn_vars

\* Then the if / elif chain installs the trigger and the identifier is
\* returned, or int() raises.
RegisterInstall(reg) ==
    /\ reg \in registering
    /\ LET trigger == trigger_for(schedule_expression_of(reg.schedule_data))
       IN  /\ jobs' = IF trigger.kind = "job"
                      THEN Append(jobs, Job(reg.job_id, trigger.unit, trigger.interval,
                                            reg.schedule_data))
                      ELSE jobs
           /\ raised_ids' = IF trigger.kind = "raise" THEN raised_ids \cup {reg.job_id}
                            ELSE raised_ids
           /\ registered' = IF trigger.kind = "raise" THEN registered
                            ELSE registered \cup {reg.job_id}
    /\ registering' = registering \ {reg}
    /\ UNCHANGED <<scheduled_jobs, uuid_count, running, scheduler_thread, threads,
                   validation_results, call, last_list, cancelled>>
    /\ UNCHANGED fn_vars

\* cancel_job(job_id)
Cancel(job_id) ==
    /\ jobs' = clear_tag(jobs, job_id)
    /\ scheduled_jobs' = cancel_rows(scheduled_jobs, job_id)
    /\ cancelled' = cancelled \cup {job_id}
    /\ UNCHANGED <<uuid_count, running, scheduler_thread, threads, validation_results, call,
                   raised_ids, last_list, registered>>
    /\ UNCHANGED registering
    /\ UNCHANGED fn_vars

\* the process ends and a new one starts over the same database file: the
\* module-level scheduler of the schedule library and the
\* ValidationScheduler are new, the tables are as they were.  __init__ and
\* start() read nothing from scheduled_jobs.
Restart ==
    /\ jobs' = <<>>
    /\ running' = FALSE
    /\ scheduler_thread' = 0
    /\ threads' = <<>>
    /\ call' = [c \in Callers |-> NoCall]
    /\ registering' = {}
    /\ UNCHANGED <<scheduled_jobs, uuid_count, validation_results, raised_ids, last_list,
                   registered, cancelled>>
    /\ UNCHANGED fn_vars

ActiveIds(rows) == {get_scheduled_jobs(rows)[i].job_id : i \in 1..Len(get_scheduled_jobs(rows))}

\* get_scheduled_jobs(): the identifiers of the rows returned, in their order
ListActive ==
    /\ last_list' = [i \in 1..Len(get_scheduled_jobs(scheduled_jobs)) |->
                        get_scheduled_jobs(scheduled_jobs)[i].job_id]
    /\ UNCHANGED <<scheduled_jobs, uuid_count, jobs, running, scheduler_thread, threads,
                   validation_results, call, raised_ids, registered, cancelled>>
    /\ UNCHANGED registering
    /\ UNCHANGED fn_vars

(***************************************************************************)
(* Inputs.                                                                 *)
(***************************************************************************)
SeqsUpTo(S, n) == UNION {[1..k -> S] : k \in 0..n}

Path_csv == <<"d", ".", "c", "s", "v">>
Path_txt == <<"d", ".", "t", "x", "t">>

C_empty == <<>>
C_every_30_minutes == <<"e", "v", "e", "r", "y", "_", "3", "0", "_", "m", "i", "n", "u", "t", "e", "s">>
C_every_2_hours == <<"e", "v", "e", "r", "y", "_", "2", "_", "h", "o", "u", "r", "s">>
C_every_0_minutes == <<"e", "v", "e", "r", "y", "_", "0", "_", "m", "i", "n", "u", "t", "e", "s">>
C_every_neg_minutes == <<"e", "v", "e", "r", "y", "_", "-", "5", "_", "m", "i", "n", "u", "t", "e", "s">>
C_every_x_minutes == <<"e", "v", "e", "r", "y", "_", "x", "_", "m", "i", "n", "u", "t", "e", "s">>
C_every_5_days == <<"e", "v", "e", "r", "y", "_", "5", "_", "d", "a", "y", "s">>
C_every_5 == <<"e", "v", "e", "r", "y", "_", "5">>
C_invalid_schedule == <<"i", "n", "v", "a", "l", "i", "d", "_", "s", "c", "h", "e", "d", "u", "l", "e">>

Cadences ==
    {C_empty, S_daily, S_hourly, S_weekly, C_every_30_minutes, C_every_2_hours,
     C_every_0_minutes, C_every_neg_minutes, C_every_x_minutes, C_every_5_days, C_every_5,
     C_invalid_schedule}

DataSources ==
    {DataSource("absent", <<>>), DataSource("empty", <<>>), DataSource("file", Path_csv),
     DataSource("file", Path_txt), DataSource("file", <<>>), DataSource("api", <<>>),
     DataSource("database", <<>>), DataSource("ftp", <<>>)}

SlackAt80 == AlertConfig("true", Threshold("absent", 0), "slack", TRUE)

\* a threshold that is no number
EmailBadThreshold == AlertConfig("true", Threshold("bad", 0), "email", FALSE)

\* the definitions given to register in the registry's specification
JobDefs ==
    {JobDef(Schedule(TRUE, c), DataSource("file", Path_csv), NoAlerts) : c \in Cadences}
    \cup {JobDef(Schedule(FALSE, <<>>), DataSource("file", Path_csv), NoAlerts)}
    \cup {JobDef(Schedule(TRUE, C_every_30_minutes), d, NoAlerts) : d \in DataSources}
    \cup {JobDef(Schedule(TRUE, C_invalid_schedule), DataSource("empty", <<>>), NoAlerts)}

\* the definitions given to register in the runner's specification
RunnerDefs ==
    {JobDef(Schedule(TRUE, C_every_30_minutes), DataSource("file", Path_csv), SlackAt80),
     JobDef(Schedule(TRUE, S_hourly), DataSource("api", <<>>), EmailBadThreshold)}

\* what a load returns: no rows, two equal rows, two different rows
RunnerDatasets ==
    {Dataset(<<"a">>, <<>>),
     Dataset(<<"a">>, <<<<IntCell(1)>>, <<IntCell(1)>>>>),
     Dataset(<<"a">>, <<<<IntCell(1)>>, <<NullCell>>>>)}

\* a load that fails, a response that is no 200, a store that fails, and
\* each channel behaviour, over each dataset
Envs ==
    {Env("raise", df, "ok", "200") : df \in RunnerDatasets}
    \cup {Env("http_error", df, "ok", "200") : df \in RunnerDatasets}
    \cup {Env("ok", df, "raise", "200") : df \in RunnerDatasets}
    \cup {Env("ok", df, "ok", channel) : df \in RunnerDatasets, channel \in {"200", "500", "raise"}}

(***************************************************************************)
(* The runner: the registry, start() / stop() and the loop threads.        *)
(***************************************************************************)
CallerNext(callers) ==
    \E c \in callers :
        \/ StartCheck(c)
        \/ StartSpawn(c)
        \/ StopSignal(c)
        \/ StopJoin(c)

LoopNext ==
    \E t \in 1..Len(threads) :
        \/ \E due \in SUBSET JobTags : LoopIterate(t, due)
        \/ \E tag \in threads[t].pending : JobStart(t, tag)
        \/ \E env \in Envs : JobFinish(t, env)
        \/ SleepElapse(t)

RegisterNext(defs) == \E schedule_data \in defs : Register(schedule_data)

CancelNext(ids) == \E job_id \in ids : Cancel(job_id)

\* the application calls start() and stop() from its lifespan alone
Next == CallerNext({"lifespan"}) \/ LoopNext \/ RegisterNext(RunnerDefs) \/ CancelNext(JobTags)

Spec == Init /\ [][Next]_vars

(***************************************************************************)
(* The registry alone, over every kind of job definition.                  *)
(***************************************************************************)
NextRegistry == RegisterNext(JobDefs) \/ CancelNext(1..MaxJobs) \/ ListActive

SpecRegistry == Init /\ [][NextRegistry]_vars

(***************************************************************************)
(* The quality scorer on its own: every results mapping of up to           *)
(* MaxEntries entries, each flat or holding up to MaxCols column results.  *)
(***************************************************************************)
ColResults == {ColResult(FALSE, FALSE), ColResult(TRUE, TRUE), ColResult(TRUE, FALSE)}

Entry(hp, p, hc, cols) == Result(hp, p, "", hc, cols, 0, 0, FALSE)

\* entries with a 'passed' key, with neither key, with a 'columns' mapping,
\* and with both keys
Entries ==
    {Entry(TRUE, p, FALSE, <<>>) : p \in BOOLEAN}
    \cup {Entry(FALSE, FALSE, FALSE, <<>>)}
    \cup {Entry(FALSE, FALSE, TRUE, cols) : cols \in SeqsUpTo(ColResults, MaxCols)}
    \cup {Entry(TRUE, p, TRUE, <<col>>) : p \in BOOLEAN, col \in ColResults}

InitScore ==
    /\ InitScheduler
    /\ fn_in \in SeqsUpTo(Entries, MaxEntries)
    /\ fn_out = <<>>
    /\ fn_pc = "in"

ScoreApply ==
    /\ fn_pc = "in"
    /\ fn_out' = calculate_quality_score(fn_in)
    /\ fn_pc' = "out"
    /\ UNCHANGED fn_in
    /\ UNCHANGED scheduler_vars

SpecScore == InitScore /\ [][ScoreApply]_vars

(***************************************************************************)
(* Custom-rule mode on its own: datasets with no column or with the one    *)
(* column "a" of up to MaxRows cells, and rule lists of one rule of any    *)
(* kind, alone or with a well-formed rule before or after it.              *)
(***************************************************************************)
T_ab == <<"a", "b">>
T_abc == <<"a", "b", "c">>
P_ab == <<"a", "b">>
P_ab_end == <<"a", "b", "$">>
P_bad == <<"[", "a">>
P_any == <<".">>
E_int == <<"i", "n", "t">>
E_object == <<"o", "b", "j", "e", "c", "t">>

Cells == {IntCell(1), IntCell(5), StrCell(T_ab), StrCell(T_abc), NullCell}

RuleDatasets ==
    {Dataset(<<>>, <<>>)}
    \cup {Dataset(<<"a">>, [r \in 1..Len(cells) |-> <<cells[r]>>]) : cells \in SeqsUpTo(Cells, MaxRows)}

Rule(name, type, column, params) ==
    [name |-> name, type |-> type, column |-> column, params |-> params]

\* "a" is the dataset's column, "zz" a column it does not have, "" no column
RuleColumns == {"a", "zz", ""}

RangeParams(hmin, hmax) == Params(hmin \/ hmax, hmin, 1, hmax, 5, <<>>, FALSE, <<>>)

\* both bounds given
RangeBounds(min_val, max_val) == Params(TRUE, TRUE, min_val, TRUE, max_val, <<>>, FALSE, <<>>)

RegexParams(pattern) == Params(pattern # <<>>, FALSE, 0, FALSE, 0, pattern, FALSE, <<>>)

TypeParams(expected) == Params(TRUE, FALSE, 0, FALSE, 0, <<>>, TRUE, expected)

\* a params mapping with some key, none of which a check reads
OtherParams == Params(TRUE, FALSE, 0, FALSE, 0, <<>>, FALSE, <<>>)

RuleParams(type) ==
    IF type = "range_check"
    THEN {RangeParams(TRUE, TRUE), RangeParams(TRUE, FALSE), RangeBounds(5, 5),
          RangeBounds(1, 1), NoParams}
    ELSE IF type = "regex_check"
    THEN {RegexParams(P_ab), RegexParams(P_ab_end), RegexParams(P_bad), RegexParams(P_any),
          NoParams}
    ELSE IF type = "type_check"
    THEN {TypeParams(E_int), TypeParams(E_object), OtherParams, NoParams}
    ELSE {NoParams}

Rules ==
    UNION {{Rule("r", type, column, params) : column \in RuleColumns, params \in RuleParams(type)} :
              type \in RuleKinds \cup {"length_check"}}

Sibling == Rule("s", "null_check", "a", NoParams)

RuleLists ==
    {<<>>}
    \cup {<<rule>> : rule \in Rules}
    \cup {<<rule, Sibling>> : rule \in Rules}
    \cup {<<Sibling, rule>> : rule \in Rules}

InitRules ==
    /\ InitScheduler
    /\ fn_in \in [df : RuleDatasets, rules : RuleLists]
    /\ fn_out = <<>>
    /\ fn_pc = "in"

RulesApply ==
    /\ fn_pc = "in"
    /\ fn_out' = validate_with_rules(fn_in.df, fn_in.rules)
    /\ fn_pc' = "out"
    /\ UNCHANGED fn_in
    /\ UNCHANGED scheduler_vars

SpecRules == InitRules /\ [][RulesApply]_vars

(***************************************************************************)
(* The alert dispatcher on its own: a report's score, the job's alert      *)
(* configuration and what the channel does.                                *)
(***************************************************************************)
Scores == {0, 5999, 6000, 7999, 8000, 8001, 8500, 10000}

Thresholds ==
    {Threshold("absent", 0), Threshold("bad", 0)}
    \cup {Threshold("num", v) : v \in {0, 6000, 8000, 10000}}

AlertConfigs ==
    {AlertConfig(enabled, threshold, type, settings) :
        enabled \in {"absent", "true", "false"}, threshold \in Thresholds,
        type \in {"absent", "email", "slack", "webhook", "sms"}, settings \in BOOLEAN}

Channels == {"200", "204", "500", "raise"}

InitAlert ==
    /\ InitScheduler
    /\ fn_in \in [quality_score : Scores, alert_config : AlertConfigs, channel : Channels]
    /\ fn_out = <<>>
    /\ fn_pc = "in"

AlertApply ==
    /\ fn_pc = "in"
    /\ fn_out' = check_and_send_alerts(fn_in.quality_score, fn_in.alert_config, fn_in.channel)
    /\ fn_pc' = "out"
    /\ UNCHANGED fn_in
    /\ UNCHANGED scheduler_vars

SpecAlert == InitAlert /\ [][AlertApply]_vars

(***************************************************************************)
(* One check on its own: a rule of one of the six kinds applied to a       *)
(* dataset with no column or with the one column "a".                      *)
(***************************************************************************)
CheckRules == {rule \in Rules : rule.type \in RuleKinds}

InitCheck ==
    /\ InitScheduler
    /\ fn_in \in [df : RuleDatasets, rule : CheckRules]
    /\ fn_out = <<>>
    /\ fn_pc = "in"

CheckApply ==
    /\ fn_pc = "in"
    /\ fn_out' = ApplyRule(fn_in.df, fn_in.rule)
    /\ fn_pc' = "out"
    /\ UNCHANGED fn_in
    /\ UNCHANGED scheduler_vars

SpecCheck == InitCheck /\ [][CheckApply]_vars

(***************************************************************************)
(* Profile mode on its own: datasets with no column, one column or two     *)
(* columns, of up to MaxRows rows.                                         *)
(***************************************************************************)
ProfileDatasets ==
    RuleDatasets
    \cup {Dataset(<<"a", "b">>, [r \in 1..Len(rows) |-> <<rows[r][1], rows[r][2]>>]) :
             rows \in SeqsUpTo(Cells \X Cells, MaxRows)}

InitProfile ==
    /\ InitScheduler
    /\ fn_in \in ProfileDatasets
    /\ fn_out = <<>>
    /\ fn_pc = "in"

ProfileApply ==
    /\ fn_pc = "in"
    /\ fn_out' = validate_dataframe(fn_in)
    /\ fn_pc' = "out"
    /\ UNCHANGED fn_in
    /\ UNCHANGED scheduler_vars

SpecProfile == InitProfile /\ [][ProfileApply]_vars

(***************************************************************************)
(* The contents of the alerts the dispatcher sends, over the same inputs.  *)
(***************************************************************************)
MessageApply ==
    /\ fn_pc = "in"
    /\ fn_out' = sent_alerts(fn_in.quality_score, fn_in.alert_config, fn_in.channel)
    /\ fn_pc' = "out"
    /\ UNCHANGED fn_in
    /\ UNCHANGED scheduler_vars

SpecMessage == InitAlert /\ [][MessageApply]_vars

(***************************************************************************)
(* The runner with two callers of start() and stop() at once: the          *)
(* application's lifespan and another client of the scheduler object.      *)
(***************************************************************************)
\* the one definition given to register in this specification
CallerDefs == {JobDef(Schedule(TRUE, S_hourly), DataSource("file", Path_csv), NoAlerts)}

NextCallers == CallerNext(Callers) \/ LoopNext \/ RegisterNext(CallerDefs)

SpecCallers == Init /\ [][NextCallers]_vars

(***************************************************************************)
(* The upload handler on its own: file names with a supported or an        *)
(* unsupported ending, and what reading, evaluating and storing do.        *)
(***************************************************************************)
Filenames ==
    {Path_csv, Path_txt, <<"d", ".", "j", "s", "o", "n">>, <<"d">>, <<"c", "s", "v">>,
     <<"d", ".", "c", "s", "v", ".", "g", "z">>, <<>>}

UploadEnvs ==
    {Env(load, df, store, "200") :
        load \in {"ok", "raise"}, df \in RunnerDatasets, store \in {"ok", "raise"}}

InitUpload ==
    /\ InitScheduler
    /\ fn_in \in [filename : Filenames, env : UploadEnvs]
    /\ fn_out = <<>>
    /\ fn_pc = "in"

UploadApply ==
    /\ fn_pc = "in"
    /\ fn_out' = validate_uploaded_file(fn_in.filename, fn_in.env)
    /\ fn_pc' = "out"
    /\ UNCHANGED fn_in
    /\ UNCHANGED scheduler_vars

SpecUpload == InitUpload /\ [][UploadApply]_vars

(***************************************************************************)
(* Registration, listing and the loop thread at once: register calls run   *)
(* in their two steps, so that a listing or a tick can fall between them.  *)
(***************************************************************************)
ConcurrentDefs ==
    {JobDef(Schedule(TRUE, c), DataSource("file", Path_csv), NoAlerts) :
        c \in {S_hourly, C_every_x_minutes, C_every_5_days}}

RegisterStepsNext(defs) ==
    \/ \E schedule_data \in defs : RegisterStore(schedule_data)
    \/ \E reg \in registering : RegisterInstall(reg)

NextConcurrent ==
    CallerNext({"lifespan"}) \/ LoopNext \/ RegisterStepsNext(ConcurrentDefs) \/ ListActive

SpecConcurrent == Init /\ [][NextConcurrent]_vars

(***************************************************************************)
(* The registry across restarts of the process, without cancel.            *)
(***************************************************************************)
NextRestart == RegisterNext(JobDefs) \/ ListActive \/ Restart

SpecRestart == Init /\ [][NextRestart]_vars

(***************************************************************************)
(* Properties.                                                             *)
(***************************************************************************)
RowIds == {scheduled_jobs[i].job_id : i \in 1..Len(scheduled_jobs)}

RowOf(job_id) ==
    CHOOSE row \in {scheduled_jobs[i] : i \in 1..Len(scheduled_jobs)} : row.job_id = job_id

\* C1: after cancel(job_id) has returned for a registered job, the job's row
\* has is_active false and get_scheduled_jobs() does not return it.
C1_CancelDeactivates ==
    \A job_id \in cancelled \cap registered :
        /\ ~RowOf(job_id).is_active
        /\ job_id \notin ActiveIds(scheduled_jobs)

\* the threshold the dispatcher compares with: the configured number, 80
\* when none is configured
EffectiveThreshold(alert_config) ==
    IF alert_config.threshold.kind = "absent" THEN DefaultThreshold
    ELSE alert_config.threshold.v

\* C2: for a numeric (or defaulted) threshold the dispatcher makes one
\* dispatch attempt (one _send_alert call) when alerts are enabled and the
\* score is strictly below the threshold, and none otherwise.
C2_AlertIffBelowThreshold ==
    (fn_pc = "out" /\ fn_in.alert_config.threshold.kind # "bad") =>
        /\ ~fn_out.raised
        /\ fn_out.attempts =
               IF /\ fn_in.alert_config.enabled = "true"
                  /\ fn_in.quality_score < EffectiveThreshold(fn_in.alert_config)
               THEN 1 ELSE 0

\* score 60.00 against an enabled threshold of 80.00: one attempt
C2_Witness ==
    /\ fn_pc = "out"
    /\ "quality_score" \in DOMAIN fn_in
    /\ fn_in.quality_score = 6000
    /\ fn_in.alert_config.enabled = "true"
    /\ fn_in.alert_config.threshold = Threshold("num", 8000)
    /\ fn_out.attempts = 1

\* C3: no loop thread is ever ended by an exception of a job, and when a
\* tick is over every job it found due has been run, whatever step of
\* whichever job raised.
C3_FaultIsolated ==
    \A t \in 1..Len(threads) :
        /\ threads[t].pc # "crashed"
        /\ threads[t].pc \notin {"jobs", "executing"} => threads[t].ran = threads[t].due

\* a tick that found two jobs due has run both, and one of them raised
C3_Witness ==
    \E t \in 1..Len(threads) :
        /\ threads[t].pc = "sleep"
        /\ Cardinality(threads[t].ran) = 2
        /\ threads[t].faults # {}

\* no entry, and no column result one level inside an entry, has a 'passed'
\* key
NoPassedFlag(mapping) ==
    \A i \in 1..Len(mapping) :
        /\ ~mapping[i].has_passed
        /\ mapping[i].has_columns =>
               \A j \in 1..Len(mapping[i].columns) :
                   ~mapping[i].columns[j].has_passed

\* C4: the score of every results mapping lies in [0, 100], and it is 100
\* when nothing in the mapping carries a passed flag.
C4_ScoreInRange ==
    fn_pc = "out" =>
        /\ 0 <= fn_out /\ fn_out <= Hundred
        /\ NoPassedFlag(fn_in) => fn_out = Hundred

\* a mapping with column results, none of which carries a flag, scores 100
C4_Witness ==
    /\ fn_pc = "out"
    /\ NoPassedFlag(fn_in)
    /\ \E i \in 1..Len(fn_in) : fn_in[i].has_columns /\ Len(fn_in[i].columns) > 0
    /\ fn_out = Hundred

\* C5: a start() call that finds the runner running returns at once and
\* creates no loop thread.
C5_StartIdempotent ==
    \A c \in Callers :
        (call[c].op = "start" /\ call[c].saw_running) =>
            /\ call[c].pc = "idle"
            /\ call[c].spawned = 0

\* start() has been called while the one loop thread was running
C5_Witness ==
    \E c \in Callers :
        /\ call[c].op = "start"
        /\ call[c].saw_running
        /\ running
        /\ Len(threads) = 1
        /\ threads[1].pc \notin {"exited", "crashed"}

\* C6: stop() does not wait for the polling interval: a join never lasts
\* until a time.sleep(60) of the loop has run out.
C6_StopNotBoundByPolling ==
    \A c \in Callers : call[c].op = "stop" => ~call[c].waited_sleep

\* a definition register has to reject: an empty cadence, no data source,
\* or a data source of no supported kind
InvalidDefinition(schedule_data) ==
    \/ schedule_data.schedule.has /\ schedule_data.schedule.s = <<>>
    \/ schedule_data.data_source.type \notin {"file", "api", "database"}

\* C7: no job with an invalid definition is persisted, and none has a
\* trigger.
C7_RegisterRejectsInvalid ==
    /\ \A i \in 1..Len(scheduled_jobs) : ~InvalidDefinition(scheduled_jobs[i].job_config)
    /\ \A i \in 1..Len(jobs) : ~InvalidDefinition(jobs[i].job_config)

\* the recognized cadences: daily, hourly, weekly, every_<N>_minutes and
\* every_<N>_hours with N a positive integer
IsPositiveInteger(text) ==
    /\ Len(text) > 0
    /\ \A i \in 1..Len(text) : IsDigit(text[i])
    /\ DigitsValue(text) > 0

Recognized(cadence) ==
    \/ cadence \in {S_daily, S_hourly, S_weekly}
    \/ LET parts == Split(cadence, "_")
       IN  /\ Len(parts) = 3
           /\ parts[1] = <<"e", "v", "e", "r", "y">>
           /\ IsPositiveInteger(parts[2])
           /\ parts[3] \in {S_minutes, S_hours}

\* C8: register returns an identifier for every non-empty cadence that is
\* not recognized; the job is stored active and has no trigger.
C8_UnrecognizedStoredInert ==
    \A job_id \in 1..uuid_count :
        (job_id \in RowIds \/ job_id \in raised_ids) =>
            LET cadence == RowOf(job_id).schedule_expression
            IN  (cadence # <<>> /\ ~Recognized(cadence)) =>
                    /\ job_id \in registered
                    /\ RowOf(job_id).is_active
                    /\ job_id \notin JobTags

\* C9: the identifiers in the registry are distinct, and of the jobs
\* register has returned get_scheduled_jobs() returns exactly those that
\* were not cancelled.
C9_ListIsRegisteredNotCancelled ==
    /\ \A i, j \in 1..Len(scheduled_jobs) :
           scheduled_jobs[i].job_id = scheduled_jobs[j].job_id => i = j
    /\ \A job_id \in registered :
           job_id \in ActiveIds(scheduled_jobs) <=> job_id \notin cancelled

\* a rule the check of its kind cannot apply: its column is not in the
\* dataset, its kind needs a column and it names none, or its params lack
\* the bounds, the pattern or the expected type
FaultyRule(df, rule) ==
    \/ rule.column # "" /\ ~HasColumn(df, rule.column)
    \/ rule.column = "" /\ rule.type \in {"unique_check", "range_check", "regex_check"}
    \/ rule.type = "range_check" /\ (~rule.params.has_min \/ ~rule.params.has_max)
    \/ rule.type = "regex_check" /\ rule.params.pattern = <<>>
    \/ rule.type = "type_check" /\ rule.column # "" /\ ~rule.params.has_expected

ResultOf(report, name) ==
    report.results[CHOOSE i \in 1..Len(report.names) : report.names[i] = name]

\* C10: custom-rule evaluation never raises, and a rule of one of the six
\* kinds that cannot be applied has a failed result with an error message.
C10_RulesDegradeToFailedResult ==
    fn_pc = "out" =>
        /\ ~fn_out.raised
        /\ \A i \in 1..Len(fn_in.rules) :
               (fn_in.rules[i].type \in RuleKinds /\ FaultyRule(fn_in.df, fn_in.rules[i])) =>
                   /\ \E k \in 1..Len(fn_out.names) : fn_out.names[k] = fn_in.rules[i].name
                   /\ ResultOf(fn_out, fn_in.rules[i].name).has_passed
                   /\ ~ResultOf(fn_out, fn_in.rules[i].name).passed
                   /\ ResultOf(fn_out, fn_in.rules[i].name).error # ""

\* a regex rule whose pattern does not compile
BadPatternRule(rule) ==
    /\ rule.type = "regex_check"
    /\ rule.params.pattern # <<>>
    /\ \E i \in 1..Len(rule.params.pattern) : rule.params.pattern[i] = "["

\* a range rule on a column of the dataset that holds a text
NonNumericRangeRule(df, rule) ==
    /\ rule.type = "range_check"
    /\ HasColumn(df, rule.column)
    /\ \E r \in 1..NRows(df) : Column(df, rule.column)[r].k = "str"

C12_EmptyDatasetScores100 ==
    (fn_pc = "out" /\ NRows(fn_in) = 0) =>
        /\ ~fn_out.raised
        /\ fn_out.quality_score = Hundred

\* the checks of a results mapping: the entries that carry a passed flag,
\* and the column results that carry one inside an entry's per-column
\* mapping
TopLevelChecks(mapping) == {i \in 1..Len(mapping) : mapping[i].has_passed}

NestedChecks(mapping) ==
    {ij \in (1..Len(mapping)) \X (1..MaxCols) :
        /\ mapping[ij[1]].has_columns
        /\ ij[2] <= Len(mapping[ij[1]].columns)
        /\ mapping[ij[1]].columns[ij[2]].has_passed}

TotalChecks(mapping) == Cardinality(TopLevelChecks(mapping)) + Cardinality(NestedChecks(mapping))

PassedChecks(mapping) ==
    Cardinality({i \in TopLevelChecks(mapping) : mapping[i].passed})
    + Cardinality({ij \in NestedChecks(mapping) : mapping[ij[1]].columns[ij[2]].passed})

\* an entry is a check result with a passed flag or a per-column mapping,
\* as every result the checks build is
FlatOrPerColumn(mapping) ==
    \A i \in 1..Len(mapping) : ~(mapping[i].has_passed /\ mapping[i].has_columns)

ColumnsWithNull(df) ==
    {j \in 1..Len(df.cols) : \E r \in 1..NRows(df) : df.rows[r][j].k = "null"}

\* C14: in a profile report every column of the null check carries a pass
\* outcome that is true exactly when the column has no null cell, and a
\* column with a null cell brings the quality_score below 100.
C14_ProfileNullOutcomes ==
    (fn_pc = "out" /\ ~fn_out.raised) =>
        LET null_check == fn_out.results[1]
        IN  /\ null_check.has_columns
            /\ Len(null_check.columns) = Len(fn_in.cols)
            /\ \A j \in 1..Len(fn_in.cols) :
                   /\ null_check.columns[j].has_passed
                   /\ null_check.columns[j].passed <=> j \notin ColumnsWithNull(fn_in)
            /\ ColumnsWithNull(fn_in) # {} => fn_out.quality_score < Hundred

HasEntry(report, name) == \E k \in 1..Len(report.names) : report.names[k] = name

\* C15: when custom-rule evaluation returns, the results mapping has an
\* entry under the name of every rule of one of the six kinds, and a rule of
\* any other kind has been reported: the call raised, or the mapping has an
\* entry with an error under the rule's name.
C15_EveryRuleAccountedFor ==
    fn_pc = "out" =>
        \A i \in 1..Len(fn_in.rules) :
            LET rule == fn_in.rules[i]
            IN  IF rule.type \in RuleKinds
                THEN ~fn_out.raised => HasEntry(fn_out, rule.name)
                ELSE \/ fn_out.raised
                     \/ HasEntry(fn_out, rule.name) /\ ResultOf(fn_out, rule.name).error # ""

\* the distinct values of a column, null being a value like any other
DistinctValues(cells) == {cells[i] : i \in 1..Len(cells)}

\* C16: the uniqueness check on a column of n > 0 rows and d distinct
\* values reports duplicate_count = n - d and passed = (duplicate_count = 0),
\* null cells or not.
C16_UniquenessCountsDistinct ==
    (/\ fn_pc = "out"
     /\ fn_in.rule.type = "unique_check"
     /\ HasColumn(fn_in.df, fn_in.rule.column)
     /\ NRows(fn_in.df) > 0) =>
        LET cells == Column(fn_in.df, fn_in.rule.column)
        IN  /\ ~fn_out.raised
            /\ fn_out.count = Len(cells) - Cardinality(DistinctValues(cells))
            /\ fn_out.passed <=> fn_out.count = 0

\* the pattern matches the whole of the text
FullMatch(pattern, text) ==
    LET b == PatternBody(pattern)
    IN  /\ Len(text) = Len(b)
        /\ \A i \in 1..Len(b) : b[i] = "." \/ b[i] = text[i]

\* C17: on a column of texts and nulls, the regex check with a pattern that
\* compiles counts as non-matching the null cells and the cells the pattern
\* does not match in full, and passes exactly when it counts none.
C17_RegexMatchesWholeValue ==
    (/\ fn_pc = "out"
     /\ fn_in.rule.type = "regex_check"
     /\ fn_in.rule.params.pattern # <<>>
     /\ PatternCompiles(fn_in.rule.params.pattern)
     /\ HasColumn(fn_in.df, fn_in.rule.column)
     /\ NRows(fn_in.df) > 0
     /\ \A r \in 1..NRows(fn_in.df) :
            Column(fn_in.df, fn_in.rule.column)[r].k \in {"str", "null"}) =>
        LET cells == Column(fn_in.df, fn_in.rule.column)
            non_matching == {r \in 1..Len(cells) :
                                \/ cells[r].k = "null"
                                \/ ~FullMatch(fn_in.rule.params.pattern, cells[r].s)}
        IN  /\ ~fn_out.raised
            /\ fn_out.count = Cardinality(non_matching)
            /\ fn_out.passed <=> Cardinality(non_matching) = 0

\* the delivery got through: a 2xx response of the Slack or webhook
\* endpoint, no error of the mail server
Delivered(alert_config, channel) ==
    /\ alert_config.settings
    /\ IF alert_config.type \in {"slack", "webhook"} THEN channel \in {"200", "204"}
       ELSE channel # "raise"

\* C18: the dispatcher returns normally for every score, alert
\* configuration and channel behaviour, and an attempt on one of the three
\* channels is reported as sent exactly when the delivery got through.
C18_DispatcherNeverRaises ==
    fn_pc = "out" =>
        /\ ~fn_out.raised
        /\ (fn_out.attempts = 1 /\ fn_in.alert_config.type # "sms") =>
               (fn_out.reported = "sent" <=> Delivered(fn_in.alert_config, fn_in.channel))

\* the qualitative band of a score
QualityBand(quality_score) ==
    IF quality_score >= 9000 THEN "Excellent"
    ELSE IF quality_score >= 7000 THEN "Good"
    ELSE IF quality_score >= 5000 THEN "Fair"
    ELSE "Poor"

\* C19: every alert the dispatcher sends tells the report's source, score
\* and timestamp and names the band of the score.
C19_AlertNamesQualityBand ==
    fn_pc = "out" =>
        \A i \in 1..Len(fn_out) :
            /\ fn_out[i].has_source
            /\ fn_out[i].has_score
            /\ fn_out[i].has_timestamp
            /\ fn_out[i].band = QualityBand(fn_in.quality_score)

\* C20: no execution of a job starts once a cancel of the job has
\* returned: a loop thread never enters the job_func of a cancelled job.
C20_NoStartAfterCancel ==
    [][\A t \in 1..Len(threads) :
          (threads[t].pc # "executing" /\ threads'[t].pc = "executing") =>
              threads'[t].cur \notin cancelled]_vars

\* C21: an execution whose data source loaded, and whose store did not
\* fail, has persisted its report; an execution whose load failed has
\* persisted nothing and has made no dispatch attempt.
C21_LoadedExecutionPersists ==
    \A t \in 1..Len(threads) :
        LET last == threads[t].last
        IN  /\ (last.loaded /\ last.fault # "persist") => last.persisted
            /\ ~last.loaded => (~last.persisted /\ last.dispatch = NoDispatch)

\* the loop threads that have not ended, and those inside a job
LiveLoops == {t \in 1..Len(threads) : threads[t].pc \notin {"exited", "crashed"}}

Executing == {t \in 1..Len(threads) : threads[t].pc = "executing"}

\* C22: at most one loop thread is alive and at most one job execution is
\* in progress, whatever start() and stop() calls the callers interleave.
C22_OneLoopOneExecution ==
    /\ Cardinality(LiveLoops) <= 1
    /\ Cardinality(Executing) <= 1

\* C23: an upload whose file name ends in neither .csv nor .json is
\* answered with status 400 and the detail "Unsupported file format";
\* nothing is evaluated and nothing stored.
C23_UnsupportedUploadIs400 ==
    (/\ fn_pc = "out"
     /\ ~EndsWith(fn_in.filename, S_csv)
     /\ ~EndsWith(fn_in.filename, S_json)) =>
        /\ fn_out.status = 400
        /\ fn_out.unsupported
        /\ ~fn_out.evaluated
        /\ ~fn_out.stored

\* C24: the null check on a column of n > 0 rows, k of them null, reports
\* null_count = k, total_count = n, null_percentage = 100 * k / n rounded
\* to two decimals (the hundredth nearest to the quotient) and
\* passed = (k = 0).
C24_NullCheckCounts ==
    (/\ fn_pc = "out"
     /\ fn_in.rule.type = "null_check"
     /\ HasColumn(fn_in.df, fn_in.rule.column)
     /\ NRows(fn_in.df) > 0) =>
        LET n == NRows(fn_in.df)
            k == Cardinality({r \in 1..n : Column(fn_in.df, fn_in.rule.column)[r].k = "null"})
            diff == fn_out.pct * n - Hundred * k
        IN  /\ ~fn_out.raised
            /\ fn_out.count = k
            /\ fn_out.total_count = n
            /\ ~fn_out.nan
            /\ 2 * diff <= n /\ 2 * (0 - diff) <= n
            /\ fn_out.has_passed
            /\ fn_out.passed <=> k = 0

\* one null cell out of two: 50.0 percent, not passed
C24_Witness ==
    /\ fn_pc = "out"
    /\ fn_in.rule.type = "null_check"
    /\ fn_in.rule.column = "a"
    /\ fn_in.df = Dataset(<<"a">>, <<<<IntCell(1)>>, <<NullCell>>>>)
    /\ fn_out.count = 1
    /\ fn_out.pct = 5000
    /\ ~fn_out.passed

\* C25: the range check with both bounds on a column of integers (nulls
\* allowed) counts the cells below min or above max, a cell equal to a
\* bound being in range, and passes exactly when it counts none.
C25_RangeBoundsInclusive ==
    (/\ fn_pc = "out"
     /\ fn_in.rule.type = "range_check"
     /\ fn_in.rule.params.has_min /\ fn_in.rule.params.has_max
     /\ HasColumn(fn_in.df, fn_in.rule.column)
     /\ \E r \in 1..NRows(fn_in.df) : Column(fn_in.df, fn_in.rule.column)[r].k = "int"
     /\ \A r \in 1..NRows(fn_in.df) :
            Column(fn_in.df, fn_in.rule.column)[r].k \in {"int", "null"}) =>
        LET cells == Column(fn_in.df, fn_in.rule.column)
            outside == {r \in 1..Len(cells) :
                           /\ cells[r].k = "int"
                           /\ ~(fn_in.rule.params.min <= cells[r].n
                                /\ cells[r].n <= fn_in.rule.params.max)}
        IN  /\ ~fn_out.raised
            /\ fn_out.error = ""
            /\ fn_out.count = Cardinality(outside)
            /\ fn_out.has_passed
            /\ fn_out.passed <=> Cardinality(outside) = 0

\* bounds 5 and 5 on the cells 1 and 5: the 1 is out of range, the 5, on
\* both bounds, is not
C25_Witness ==
    /\ fn_pc = "out"
    /\ fn_in.rule.type = "range_check"
    /\ fn_in.rule.column = "a"
    /\ fn_in.rule.params = RangeBounds(5, 5)
    /\ fn_in.df = Dataset(<<"a">>, <<<<IntCell(1)>>, <<IntCell(5)>>>>)
    /\ fn_out.count = 1
    /\ ~fn_out.passed

\* the triggers tagged with an identifier
TriggersOf(job_id) == {i \in 1..Len(jobs) : jobs[i].tag = job_id}

C27_RegisterAllOrNothing ==
    /\ \A job_id \in raised_ids :
           /\ job_id \notin RowIds
           /\ TriggersOf(job_id) = {}
    /\ \A job_id \in registered :
           Recognized(RowOf(job_id).schedule_expression) =>
               /\ RowOf(job_id).is_active
               /\ Cardinality(TriggersOf(job_id)) = 1 \/ job_id \in cancelled

\* C28: an execution has made a dispatch attempt only if it has persisted
\* its report; an execution whose store failed has made none.
C28_AlertOnlyAfterPersist ==
    \A t \in 1..Len(threads) :
        LET last == threads[t].last
        IN  /\ last.dispatch.attempts > 0 => last.persisted
            /\ last.fault = "persist" => last.dispatch = NoDispatch

\* the store failed for a report scoring 0 of a job that alerts below 80
C28_Witness ==
    \E t \in 1..Len(threads) :
        /\ threads[t].last.fault = "persist"
        /\ threads[t].last.score = 0
        /\ threads[t].last.dispatch = NoDispatch
        /\ \E tag \in threads[t].ran : ConfigOf(tag).alerts = SlackAt80
        /\ Cardinality(threads[t].ran) = 1

\* C29: a step removes the triggers of at most one identifier, one that
\* cancel has been called for, and keeps every other trigger, in order; it
\* leaves every row as it was; and no trigger carries an identifier whose
\* cancel has just returned.
C29_CancelTouchesOnlyItsTrigger ==
    [][LET removed == {jobs[i].tag : i \in 1..Len(jobs)} \ {jobs'[i].tag : i \in 1..Len(jobs')}
           kept == SelectSeq(jobs, LAMBDA job : job.tag \notin removed)
       IN  /\ Cardinality(removed) <= 1
           /\ removed \subseteq cancelled'
           /\ Len(jobs') >= Len(kept)
           /\ SubSeq(jobs', 1, Len(kept)) = kept
           /\ Len(scheduled_jobs') >= Len(scheduled_jobs)
           /\ \A i \in 1..Len(scheduled_jobs) : scheduled_jobs'[i] = scheduled_jobs[i]
           /\ \A i \in 1..Len(jobs') : jobs'[i].tag \notin cancelled' \ cancelled]_vars

\* two jobs with a trigger were registered, the first has been cancelled
\* and the second still has its trigger
C29_Witness ==
    /\ registered = {1, 2}
    /\ cancelled = {1}
    /\ Len(jobs) = 1
    /\ jobs[1].tag = 2
    /\ Len(scheduled_jobs) = 2
    /\ trigger_for(RowOf(1).schedule_expression).kind = "job"

\* C30: a job with a recognized cadence whose register call has returned
\* is among the active rows exactly when a trigger carries its identifier.
C30_RegistryMatchesRunner ==
    \A job_id \in registered :
        Recognized(RowOf(job_id).schedule_expression) =>
            (job_id \in ActiveIds(scheduled_jobs) <=> TriggersOf(job_id) # {})

====
